---------------------------- MODULE Spec2Model ----------------------------
(***************************************************************************)
(* A model of 07_Agents/00_LLM_Claude_Agent_Tools.ipynb: the notebook's    *)
(* code cells run top to bottom, the Tool descriptors they create and      *)
(* change, the mock tool functions they define, and the agent runs, during *)
(* which the framework invokes the tools of the agent with inputs chosen   *)
(* by the language model.                                                  *)
(*                                                                         *)
(* Python strings are TLA+ strings (TLC treats a string as the sequence of *)
(* its characters: Len, SubSeq and \o apply).  A Python value passed to or *)
(* returned from a tool is a record tagged with its Python type, so that   *)
(* values of different types are never compared directly.                  *)
(***************************************************************************)
EXTENDS Integers, Sequences, FiniteSets, TLC

VARIABLES
    pc,              \* the code cell the notebook executes next
    heap,            \* every Tool object created so far: object id -> descriptor
    tools,           \* the global tools: a list of object ids
    react_agent,     \* the global react_agent: the tools it was built with
    pae_agent,       \* the global pae_agent: the tools its executor was built with
    lti_defined,     \* whether exec() has defined list_tagged_instances
    table_defined,   \* whether cell 19 has defined customer_table
    customer_table,  \* the global customer_table
    running,         \* the agent whose run() is in progress, or "none"
    ncalls,          \* tool invocations made by the run in progress
    call,            \* the last tool invocation: tool, callable, argument, outcome
    cell_error,      \* the exception that ended the last cell, or ""
    tools_changes,   \* changes made to the tools list so far: rebindings of
                     \* tools, appends, replacements of a tool's callable
    built_at         \* per agent, tools_changes when it was last constructed

vars == <<pc, heap, tools, react_agent, pae_agent, lti_defined, table_defined,
          customer_table, running, ncalls, call, cell_error, tools_changes, built_at>>

---------------------------------------------------------------------------
(* Bounds of the model. *)

\* Tool invocations the framework makes in one agent run.
MaxCalls == 2
\* Ids 0 .. MaxLookupId are looked up, as integers and as decimal strings.
MaxLookupId == 11
\* Comma-separated segments in an input of EC2Patch / EC2Stop.
MaxSegs == 3

---------------------------------------------------------------------------
(* Python strings. *)

Ch(s, i) == SubSeq(s, i, i)

DQ == "\""

Digits == <<"0", "1", "2", "3", "4", "5", "6", "7", "8", "9">>

IsDigit(c) == \E d \in 1..10 : Digits[d] = c

DigitVal(c) == (CHOOSE d \in 1..10 : Digits[d] = c) - 1

\* The characters int() and json.loads treat as whitespace, of those the
\* tool inputs hold.
Whitespace == {" ", "\t"}

\* str(n) for an int n: its decimal digits, most significant first.
RECURSIVE str_nat(_)
str_nat(n) == IF n < 10 THEN Digits[n + 1]
              ELSE str_nat(n \div 10) \o Digits[(n % 10) + 1]

str_int(n) == IF n < 0 THEN "-" \o str_nat(0 - n) ELSE str_nat(n)

\* s.strip(): s without its leading and trailing whitespace.
RECURSIVE lstrip(_)
lstrip(s) == IF Len(s) > 0 /\ Ch(s, 1) \in Whitespace THEN lstrip(Tail(s)) ELSE s

RECURSIVE rstrip(_)
rstrip(s) == IF Len(s) > 0 /\ Ch(s, Len(s)) \in Whitespace
             THEN rstrip(SubSeq(s, 1, Len(s) - 1)) ELSE s

strip(s) == rstrip(lstrip(s))

\* Python values.
PyInt(n) == [type |-> "int", n |-> n, s |-> ""]
PyStr(s) == [type |-> "str", n |-> 0, s |-> s]

\* The outcome of evaluating an expression: a value, or an exception.
Ok(v) == [ok |-> TRUE, v |-> v, exc |-> ""]
Raise(e) == [ok |-> FALSE, v |-> 0, exc |-> e]

\* The digits of an int literal after the sign: digits, with single
\* underscores allowed between digits.  acc is the value read so far and
\* prev tells whether the previous character was a digit.
RECURSIVE int_digits(_, _, _)
int_digits(s, acc, prev) ==
    IF Len(s) = 0 THEN (IF prev THEN Ok(acc) ELSE Raise("ValueError"))
    ELSE IF IsDigit(Ch(s, 1)) THEN int_digits(Tail(s), 10 * acc + DigitVal(Ch(s, 1)), TRUE)
    ELSE IF Ch(s, 1) = "_" /\ prev THEN int_digits(Tail(s), acc, FALSE)
    ELSE Raise("ValueError")

\* int(x) of Python, base 10: an int is itself; a string is stripped of
\* whitespace, may carry one sign, and must then be a digit string.
int(x) ==
    IF x.type = "int" THEN Ok(x.n)
    ELSE LET t == strip(x.s)
             neg == Len(t) > 0 /\ Ch(t, 1) = "-"
             signed == Len(t) > 0 /\ Ch(t, 1) \in {"+", "-"}
             r == int_digits(IF signed THEN Tail(t) ELSE t, 0, FALSE)
         IN IF r.ok /\ neg THEN Ok(0 - r.v) ELSE r

---------------------------------------------------------------------------
(* Cell 19: the customer table and its lookup. *)

Customer(id, first, last, age, postal) ==
    [id |-> id, first_name |-> first, last_name |-> last, age |-> age,
     postal_code |-> postal]

\* The table with a record pasted twice and only its names edited: the
\* ninth record keeps the id 8.
customer_table_pasted ==
    << Customer(1, "John", "Doe", 35, "90210"),
       Customer(2, "Jane", "Smith", 27, "12345"),
       Customer(3, "Bob", "Jones", 42, "55555"),
       Customer(4, "Sara", "Miller", 29, "13579"),
       Customer(5, "Mark", "Davis", 31, "02468"),
       Customer(6, "Laura", "Wilson", 24, "98765"),
       Customer(7, "Steve", "Moore", 36, "11223"),
       Customer(8, "Michelle", "Chen", 22, "33215"),
       Customer(8, "David", "Lee", 29, "99567"),
       Customer(10, "Jessica", "Brown", 18, "43210") >>

\* The list literal bound to customer_table.  The record with id 8 is the
\* only one with an "orders" element.
customer_table_literal ==
    << Customer(1, "John", "Doe", 35, "90210"),
       Customer(2, "Jane", "Smith", 27, "12345"),
       Customer(3, "Bob", "Jones", 42, "55555"),
       Customer(4, "Sara", "Miller", 29, "13579"),
       Customer(5, "Mark", "Davis", 31, "02468"),
       Customer(6, "Laura", "Wilson", 24, "98765"),
       Customer(7, "Steve", "Moore", 36, "11223"),
       [id |-> 8, first_name |-> "Michelle", last_name |-> "Chen", age |-> 22,
        orders |-> << [order_id |-> 1, description |-> "An order of 1 dozen pencils"],
                      [order_id |-> 2, description |-> "An order of 2 markers"] >>,
        postal_code |-> "33215"],
       Customer(9, "David", "Lee", 29, "99567"),
       Customer(10, "Jessica", "Brown", 18, "43210") >>

\* What a tool function does when called: it returns a value or raises.
\* type is the Python type of the value returned ("str", "dict",
\* "NoneType") or the exception raised; s holds a returned string and rec
\* a returned customer record.
ReturnStr(s) == [kind |-> "return", type |-> "str", s |-> s, rec |-> <<>>]
ReturnDict(r) == [kind |-> "return", type |-> "dict", s |-> "", rec |-> r]
ReturnNone == [kind |-> "return", type |-> "NoneType", s |-> "", rec |-> <<>>]
Raises(e) == [kind |-> "raise", type |-> e, s |-> "", rec |-> <<>>]

\* customer_lookup comparing customer["id"] with id itself, without int():
\* an id given as a string equals no record's id.
RECURSIVE customer_lookup_no_int(_, _)
customer_lookup_no_int(id, table) ==
    IF Len(table) = 0 THEN ReturnNone
    ELSE IF id.type = "int" /\ Head(table).id = id.n THEN ReturnDict(Head(table))
    ELSE customer_lookup_no_int(id, Tail(table))

\* customer_lookup ending with "return customer" instead of "return None":
\* without a match it returns the last record the loop visited.
RECURSIVE customer_lookup_last(_, _)
customer_lookup_last(id, table) ==
    IF Len(table) = 0 THEN Raises("UnboundLocalError")
    ELSE LET customer == Head(table)
             n == int(id)
         IN IF ~n.ok THEN Raises(n.exc)
            ELSE IF customer.id = n.v \/ Len(table) = 1 THEN ReturnDict(customer)
            ELSE customer_lookup_last(id, Tail(table))

\* customer_lookup(id), with the table it reads as a parameter.  The loop
\* evaluates int(id) once per record it visits, so a conversion error is
\* raised at the first record; with no record to visit, int(id) is never
\* evaluated.
RECURSIVE customer_lookup(_, _)
customer_lookup(id, table) ==
    IF Len(table) = 0 THEN ReturnNone
    ELSE LET customer == Head(table)
             n == int(id)
         IN IF ~n.ok THEN Raises(n.exc)
            ELSE IF customer.id = n.v THEN ReturnDict(customer)
            ELSE customer_lookup(id, Tail(table))

\* The index of the first record of table whose id is n, or 0.
RECURSIVE index_of(_, _, _)
index_of(table, n, i) ==
    IF i > Len(table) THEN 0
    ELSE IF table[i].id = n THEN i
    ELSE index_of(table, n, i + 1)

\* A lookup that takes the record it finds out of the list (list.pop).
customer_table_popped(f, x, table) ==
    IF f = "customer_lookup" /\ int(x).ok /\ index_of(table, int(x).v, 1) > 0
    THEN LET i == index_of(table, int(x).v, 1)
         IN SubSeq(table, 1, i - 1) \o SubSeq(table, i + 1, Len(table))
    ELSE table

\* customer_table after the callable named f has been called with x: no
\* tool function assigns to customer_table, to its list or to a record
\* of it; customer_lookup only reads them.
customer_table_after(f, x, table) == table

---------------------------------------------------------------------------
(* Cell 10: the mock EC2 tools. *)

\* The index of the first "," of s at or after i, or 0 when there is none.
RECURSIVE find_comma(_, _)
find_comma(s, i) ==
    IF i > Len(s) THEN 0
    ELSE IF Ch(s, i) = "," THEN i
    ELSE find_comma(s, i + 1)

\* A split that keeps no empty segment, as s.split() does for whitespace.
RECURSIVE split_nonempty(_)
split_nonempty(s) ==
    LET i == find_comma(s, 1)
        head == IF i = 0 THEN s ELSE SubSeq(s, 1, i - 1)
        rest == IF i = 0 THEN <<>> ELSE split_nonempty(SubSeq(s, i + 1, Len(s)))
    IN IF Len(head) = 0 THEN rest ELSE << head >> \o rest

\* s.split(','): the list of the segments of s between its commas.
RECURSIVE split(_)
split(s) ==
    LET i == find_comma(s, 1)
    IN IF i = 0 THEN << s >>
       ELSE << SubSeq(s, 1, i - 1) >> \o split(SubSeq(s, i + 1, Len(s)))

\* A mock search that knows which tag exists.
EC2Search_by_tag(x) ==
    IF x = "delete" THEN ReturnStr("['i-00000000000','i-00000000001','i-00000000002']")
    ELSE ReturnStr("[]")

\* lambda x: f"['i-00000000000','i-00000000001','i-00000000002']"
EC2Search_func(x) ==
    ReturnStr("['i-00000000000','i-00000000001','i-00000000002']")

\* lambda x: f"{len(x.split(','))} instances patched"
EC2Patch_func(x) == ReturnStr(str_int(Len(split(x))) \o " instances patched")

\* lambda x: f"{len(x.split(','))} instances stopped"
EC2Stop_func(x) == ReturnStr(str_int(Len(split(x))) \o " instances stopped")

---------------------------------------------------------------------------
(* Cell 10: record_change, and json.loads as far as it needs it.           *)
(*                                                                         *)
(* The JSON documents given to the tool are built of objects, strings      *)
(* without escapes and whitespace; a number, a literal or an array starts  *)
(* with a character that no tool input holds outside a string.             *)

\* A parsed JSON value: a str, or a dict as the list of its <<key, value>>
\* members in document order.
JStr(s) == [type |-> "str", s |-> s, items |-> <<>>]
JDict(items) == [type |-> "dict", s |-> "", items |-> items]

\* A parse: the value and the index after it, or a JSONDecodeError.
Parsed(v, next) == [ok |-> TRUE, val |-> v, next |-> next]
ParseError == [ok |-> FALSE, val |-> JStr(""), next |-> 0]

\* The first index at or after i that holds no whitespace.
RECURSIVE skip_ws(_, _)
skip_ws(s, i) ==
    IF i <= Len(s) /\ Ch(s, i) \in Whitespace THEN skip_ws(s, i + 1) ELSE i

\* The index of the double quote closing the string that starts before i,
\* or 0 when the string is unterminated or holds a control character.
RECURSIVE scan_string(_, _)
scan_string(s, i) ==
    IF i > Len(s) THEN 0
    ELSE IF Ch(s, i) = DQ THEN i
    ELSE IF Ch(s, i) = "\t" THEN 0
    ELSE scan_string(s, i + 1)

RECURSIVE parse_value(_, _)
RECURSIVE parse_members(_, _, _)

\* The members of an object from the first key at k, up to and including
\* the closing brace; acc holds the members read so far.
parse_members(s, k, acc) ==
    IF k > Len(s) \/ Ch(s, k) # DQ THEN ParseError
    ELSE LET j == scan_string(s, k + 1)
         IN IF j = 0 THEN ParseError
            ELSE LET key == SubSeq(s, k + 1, j - 1)
                     c == skip_ws(s, j + 1)
                 IN IF c > Len(s) \/ Ch(s, c) # ":" THEN ParseError
                    ELSE LET v == parse_value(s, c + 1)
                         IN IF ~v.ok THEN ParseError
                            ELSE LET e == skip_ws(s, v.next)
                                     members == Append(acc, << key, v.val >>)
                                 IN IF e > Len(s) THEN ParseError
                                    ELSE IF Ch(s, e) = "}" THEN Parsed(JDict(members), e + 1)
                                    ELSE IF Ch(s, e) = "," THEN parse_members(s, skip_ws(s, e + 1), members)
                                    ELSE ParseError

\* The JSON value that starts at i, after whitespace.
parse_value(s, i0) ==
    LET i == skip_ws(s, i0)
    IN IF i > Len(s) THEN ParseError
       ELSE IF Ch(s, i) = DQ
            THEN LET j == scan_string(s, i + 1)
                 IN IF j = 0 THEN ParseError
                    ELSE Parsed(JStr(SubSeq(s, i + 1, j - 1)), j + 1)
       ELSE IF Ch(s, i) = "{"
            THEN LET k == skip_ws(s, i + 1)
                 IN IF k <= Len(s) /\ Ch(s, k) = "}" THEN Parsed(JDict(<<>>), k + 1)
                    ELSE parse_members(s, k, <<>>)
       ELSE ParseError

\* json.loads(s): one value, with nothing but whitespace after it.
json_loads(s) ==
    LET r == parse_value(s, 1)
    IN IF ~r.ok THEN ParseError
       ELSE IF skip_ws(s, r.next) <= Len(s) THEN ParseError
       ELSE r

\* j[key] for a parsed value j: the value of the last member named key.
HasKey(j, key) == \E m \in DOMAIN j.items : j.items[m][1] = key

GetItem(j, key) ==
    LET last == CHOOSE m \in DOMAIN j.items :
                    /\ j.items[m][1] = key
                    /\ \A m2 \in DOMAIN j.items : j.items[m2][1] = key => m2 <= m
    IN j.items[last][2]

subscript(j, key) ==
    IF j.type # "dict" THEN Raise("TypeError")
    ELSE IF ~HasKey(j, key) THEN Raise("KeyError")
    ELSE Ok(GetItem(j, key))

\* The distinct keys of a dict, in the order of their first occurrence,
\* each with its last value: the order in which Python prints the dict.
RECURSIVE dict_keys(_, _)
dict_keys(items, seen) ==
    IF Len(items) = 0 THEN <<>>
    ELSE IF Head(items)[1] \in seen THEN dict_keys(Tail(items), seen)
    ELSE << Head(items)[1] >> \o dict_keys(Tail(items), seen \cup {Head(items)[1]})

\* format(v) in an f-string: a str as it is, a dict as its repr (for
\* strings without quotes or escapes, which repr puts in single quotes).
RECURSIVE py_format(_, _)
RECURSIVE repr_members(_, _, _)
repr_members(j, keys, first) ==
    IF Len(keys) = 0 THEN ""
    ELSE (IF first THEN "" ELSE ", ") \o "'" \o Head(keys) \o "': "
         \o py_format(GetItem(j, Head(keys)), TRUE)
         \o repr_members(j, Tail(keys), FALSE)

py_format(v, quoted) ==
    IF v.type = "str" THEN (IF quoted THEN "'" \o v.s \o "'" ELSE v.s)
    ELSE "{" \o repr_members(v, dict_keys(v.items, {}), TRUE) \o "}"

\* x[1:-1]: x without its first and last character.
slice_1_m1(x) == IF Len(x) < 2 THEN "" ELSE SubSeq(x, 2, Len(x) - 1)

\* record_change reading the elements with j.get(...): a missing
\* element is formatted as None and nothing is raised for it.
record_change_get(x) ==
    LET j == json_loads(slice_1_m1(x))
        get(key) == IF HasKey(j.val, key) THEN py_format(GetItem(j.val, key), FALSE) ELSE "None"
    IN IF ~j.ok THEN Raises("JSONDecodeError")
       ELSE IF j.val.type # "dict" THEN Raises("AttributeError")
       ELSE ReturnStr("instance " \o get("instance") \o ". ACTION: " \o get("changeType")
                      \o " recorded in CMDB")

\* record_change(x)
record_change(x) ==
    LET j == json_loads(slice_1_m1(x))
    IN IF ~j.ok THEN Raises("JSONDecodeError")
       ELSE LET instance == subscript(j.val, "instance")
                changeType == subscript(j.val, "changeType")
            IN IF ~instance.ok THEN Raises(instance.exc)
               ELSE IF ~changeType.ok THEN Raises(changeType.exc)
               ELSE ReturnStr("instance " \o py_format(instance.v, FALSE)
                              \o ". ACTION: " \o py_format(changeType.v, FALSE)
                              \o " recorded in CMDB")

---------------------------------------------------------------------------
(* Tool descriptors. *)

\* Tool(name=..., func=..., description=...) and Tool.from_function(...):
\* func names the callable the descriptor holds.
Tool(name, func, description) ==
    [name |-> name, func |-> func, description |-> description]

\* load_tools(["serpapi", "llm-math"], llm=llm): the two descriptors the
\* framework builds, with the names it gives them.
load_tools ==
    << Tool("Search", "serpapi", "A search engine."),
       Tool("Calculator", "llm-math", "Useful for when you need to answer questions about math.") >>

EC2SearchTool ==
    Tool("EC2Search", "EC2Search_lambda",
         "Use this when you need to list EC2 instances in json. It takes a single parameter named tagname")

EC2PatchTool ==
    Tool("EC2Patch", "EC2Patch_lambda", "Use this when you need to patch EC2 instances")

EC2StopTool ==
    Tool("EC2Stop", "EC2Stop_lambda", "Use this when you need to stop EC2 instances")

ChangeRecordTool ==
    Tool("ChangeRecord", "record_change",
         "Use this when you need to update a change record in CMDB. This takes in a json document as the parameter. The element named 'instance' contains the instance and the element named 'changeType' is the change type.")

CustomerLookupTool ==
    Tool("CustomerLookup", "customer_lookup", "Use this when you need to lookup a customer by id.")

\* The list literal of cell 23.
PlanTools ==
    << Tool("Search", "search.run",
            "useful for when you need to answer questions about current events. You should ask targeted questions"),
       Tool("Calculator", "llm_math_chain.run",
            "useful for when you need to answer questions about math") >>

\* The ids the objects of a list get when they are created after those of h.
NewIds(h, descriptors) == [i \in 1..Len(descriptors) |-> Len(h) + i]

\* The loop without its test of the name: every tool of the list gets f.
ReplaceEveryFunc(h, ts, f) ==
    [o \in DOMAIN h |->
        IF \E i \in DOMAIN ts : ts[i] = o THEN [h[o] EXCEPT !.func = f] ELSE h[o]]

\* The tool made anew around f, its description left out.
ReplaceDescriptor(h, ts, f) ==
    [o \in DOMAIN h |->
        IF (\E i \in DOMAIN ts : ts[i] = o) /\ h[o].name = "EC2Search"
        THEN Tool("EC2Search", f, "")
        ELSE h[o]]

\* for tool in tools: if tool.name == "EC2Search": tool.func = f
ReplaceEC2Search(h, ts, f) ==
    [o \in DOMAIN h |->
        IF (\E i \in DOMAIN ts : ts[i] = o) /\ h[o].name = "EC2Search"
        THEN [h[o] EXCEPT !.func = f]
        ELSE h[o]]

\* initialize_agent(tools, ...) and load_agent_executor(llm, tools, ...):
\* the agent holds the Tool objects of the list it is given.
Agent(ts) == [built |-> TRUE, tools |-> ts]
NoAgent == [built |-> FALSE, tools |-> <<>>]

---------------------------------------------------------------------------
(* The inputs the language model gives the tools during an agent run. *)

\* sep.join(segs)
RECURSIVE join(_)
join(segs) ==
    IF Len(segs) = 1 THEN segs[1]
    ELSE segs[1] \o "," \o join(Tail(segs))

Segments == {"", "i-00000000000", "none"}

\* Instance lists: up to MaxSegs segments joined by commas, among them
\* the empty string, "," and "none".
InstanceLists ==
    { join(segs) : segs \in UNION { [1..n -> Segments] : n \in 1..MaxSegs } }

TagNames == {"delete", "doesnotexist", "Name", ""}

\* The ids looked up: integers, their decimal strings, and strings that
\* int() reads otherwise or not at all.
LookupIds ==
    { PyInt(n) : n \in (0 - 1)..MaxLookupId }
    \cup { PyStr(str_int(n)) : n \in (0 - 1)..MaxLookupId }
    \cup { PyStr(t) : t \in {" 8 ", "08", "+8", "1_0", "8.0", "", "abc", "8,9", "_8", "8_", "- 8"} }

Documents ==
    { "{\"instance\": \"i-00000000000\", \"changeType\": \"PATCH\"}",
      "{\"instance\":\"i-1\",\"changeType\":\"STOP\"}",
      "{ \"changeType\" : \"PATCH\" , \"instance\" : \"i-2\" }",
      "{\"instance\": \"i-3\", \"note\": \"x\", \"changeType\": \"PATCH\"}",
      "{\"instance\": \"i-4\", \"changeType\": \"PATCH\", \"instance\": \"i-5\"}",
      "{\"instance\": {\"id\": \"i-6\"}, \"changeType\": \"PATCH\"}",
      "{\"instance\": \"i-1\"}",
      "{\"changeType\": \"PATCH\"}",
      "{}",
      "\"instance\"",
      "{instance: i-1, changeType: PATCH}",
      "{\"instance\": \"i-1\", \"changeType\": \"PATCH\",}",
      "{\"instance\": \"i-1\", \"changeType\": \"PATCH\"",
      "{\"instance\": \"i-1\" \"changeType\": \"PATCH\"}",
      "{\"instance\": \"i\t1\", \"changeType\": \"PATCH\"}",
      "" }

\* What the language model's output puts around a document: nothing,
\* quotes, whitespace.
Wrappers ==
    { << "", "" >>, << "'", "'" >>, << DQ, DQ >>, << " ", " " >>, << " '", "' " >> }

ChangeRecordInputs == { w[1] \o d \o w[2] : w \in Wrappers, d \in Documents }

Queries == {"What is Amazon SageMaker?", "2017 * 2"}

\* The inputs a callable is given.
ToolInputs(f) ==
    CASE f = "EC2Search_lambda" -> { PyStr(t) : t \in TagNames }
      [] f = "list_tagged_instances" -> { PyStr(t) : t \in TagNames }
      [] f \in {"EC2Patch_lambda", "EC2Stop_lambda"} -> { PyStr(t) : t \in InstanceLists }
      [] f = "record_change" -> { PyStr(t) : t \in ChangeRecordInputs }
      [] f = "customer_lookup" -> LookupIds
      [] OTHER -> { PyStr(t) : t \in Queries }

\* What a callable that is not the notebook's own code may do: the
\* framework's search and calculator, and the function exec() defined
\* from the model's completion.
External == { ReturnStr("(external)"), Raises("Exception") }

\* func(x): the outcomes of calling the callable named f with x.
Invoke(f, x, table) ==
    CASE f = "EC2Search_lambda" -> { EC2Search_func(x.s) }
      [] f = "EC2Patch_lambda" -> { EC2Patch_func(x.s) }
      [] f = "EC2Stop_lambda" -> { EC2Stop_func(x.s) }
      [] f = "record_change" -> { record_change(x.s) }
      [] f = "customer_lookup" -> { customer_lookup(x, table) }
      [] OTHER -> External

NoCall == [tool |-> "", func |-> "", arg |-> PyStr(""), result |-> ReturnNone]

---------------------------------------------------------------------------
(* The notebook, top to bottom.  A cell that raises leaves what it had     *)
(* done before the exception and the notebook goes on with the next cell.  *)

Cells == << "cell7", "cell8", "cell10", "cell11", "cell13", "cell15", "cell17",
            "cell19", "cell20", "cell23", "cell24", "cell25", "done" >>

NextCell(c) == Cells[(CHOOSE i \in DOMAIN Cells : Cells[i] = c) + 1]

Init ==
    /\ pc = "cell7"
    /\ heap = <<>>
    /\ tools = <<>>
    /\ react_agent = NoAgent
    /\ pae_agent = NoAgent
    /\ lti_defined = FALSE
    /\ table_defined = FALSE
    /\ customer_table = <<>>
    /\ running = "none"
    /\ ncalls = 0
    /\ call = NoCall
    /\ cell_error = ""
    /\ tools_changes = 0
    /\ built_at = [react |-> 0, pae |-> 0]

\* The tools list is changed n times: by an assignment to tools, an
\* append to it, or an assignment to the func of a tool of it.
ToolsChanged(n) == tools_changes' = tools_changes + n

\* An agent is constructed from the tools list as the cell has left it.
Built(agent) == built_at' = [built_at EXCEPT ![agent] = tools_changes']

\* agent.run(question) begins.
StartRun(agent) ==
    /\ running' = agent
    /\ ncalls' = 0
    /\ cell_error' = ""
    /\ UNCHANGED pc

\* The cell ends without an agent run in progress.
EndCell(error) ==
    /\ pc' = NextCell(pc)
    /\ running' = "none"
    /\ cell_error' = error
    /\ UNCHANGED ncalls

\* tools = load_tools(...); react_agent = initialize_agent(tools, ...)
Cell7 ==
    /\ pc = "cell7" /\ running = "none"
    /\ heap' = heap \o load_tools
    /\ tools' = NewIds(heap, load_tools)
    /\ react_agent' = Agent(tools')
    /\ ToolsChanged(1)
    /\ Built("react")
    /\ EndCell("")
    /\ UNCHANGED <<pae_agent, lti_defined, table_defined, customer_table, call>>

\* react_agent.run(question)
Cell8 ==
    /\ pc = "cell8" /\ running = "none"
    /\ StartRun("react")
    /\ UNCHANGED <<heap, tools, react_agent, pae_agent, lti_defined, table_defined,
                   customer_table, call, tools_changes, built_at>>

\* tools = load_tools(...), then four tools.append(Tool.from_function(...))
Cell10 ==
    /\ pc = "cell10" /\ running = "none"
    /\ LET created == load_tools \o << EC2SearchTool, EC2PatchTool, EC2StopTool, ChangeRecordTool >>
       IN /\ heap' = heap \o created
          /\ tools' = NewIds(heap, created)
    /\ ToolsChanged(5)
    /\ EndCell("")
    /\ UNCHANGED <<react_agent, pae_agent, lti_defined, table_defined, customer_table, call,
                   built_at>>

\* react_agent = initialize_agent(tools, ...); result = react_agent.run(question)
Cell11 ==
    /\ pc = "cell11" /\ running = "none"
    /\ UNCHANGED tools_changes
    /\ react_agent' = Agent(tools)
    /\ Built("react")
    /\ StartRun("react")
    /\ UNCHANGED <<heap, tools, pae_agent, lti_defined, table_defined, customer_table, call>>

\* exec(python_code) defines list_tagged_instances, unless the completion
\* is not the <code> element asked for or its text is not Python, and
\* ET.fromstring or exec raises.
Cell13 ==
    /\ pc = "cell13" /\ running = "none"
    /\ \/ lti_defined' = TRUE /\ EndCell("")
       \/ UNCHANGED lti_defined /\ EndCell("ParseError")
    /\ UNCHANGED <<heap, tools, react_agent, pae_agent, table_defined, customer_table, call,
                   tools_changes, built_at>>

\* The loop that replaces the callable of EC2Search, then a new agent and
\* its run.  With list_tagged_instances undefined the assignment raises
\* NameError at the first tool named EC2Search.
Cell15 ==
    /\ pc = "cell15" /\ running = "none"
    /\ \/ /\ lti_defined \/ ~\E i \in DOMAIN tools : heap[tools[i]].name = "EC2Search"
          /\ heap' = ReplaceEC2Search(heap, tools, "list_tagged_instances")
          /\ ToolsChanged(Cardinality({ i \in DOMAIN tools : heap[tools[i]].name = "EC2Search" }))
          /\ react_agent' = Agent(tools)
          /\ Built("react")
          /\ StartRun("react")
       \/ /\ ~lti_defined /\ \E i \in DOMAIN tools : heap[tools[i]].name = "EC2Search"
          /\ EndCell("NameError")
          /\ UNCHANGED <<heap, react_agent, tools_changes, built_at>>
    /\ UNCHANGED <<tools, pae_agent, lti_defined, table_defined, customer_table, call>>

\* result = react_agent.run(question), with the tag doesnotexist
Cell17 ==
    /\ pc = "cell17" /\ running = "none"
    /\ StartRun("react")
    /\ UNCHANGED <<heap, tools, react_agent, pae_agent, lti_defined, table_defined,
                   customer_table, call, tools_changes, built_at>>

\* customer_table = [...]; def customer_lookup; tools.append(...)
Cell19 ==
    /\ pc = "cell19" /\ running = "none"
    /\ customer_table' = customer_table_literal
    /\ table_defined' = TRUE
    /\ heap' = Append(heap, CustomerLookupTool)
    /\ tools' = Append(tools, Len(heap) + 1)
    /\ ToolsChanged(1)
    /\ EndCell("")
    /\ UNCHANGED <<react_agent, pae_agent, lti_defined, call, built_at>>

\* Cell 20 without its initialize_agent: the agent of cell 15 or 11 is
\* run after cell 19 has appended CustomerLookup.
Cell20_no_rebuild ==
    /\ pc = "cell20" /\ running = "none"
    /\ StartRun("react")
    /\ UNCHANGED <<heap, tools, react_agent, pae_agent, lti_defined, table_defined,
                   customer_table, call, tools_changes, built_at>>

\* react_agent = initialize_agent(tools, ...); result = react_agent.run(question)
Cell20 ==
    /\ pc = "cell20" /\ running = "none"
    /\ UNCHANGED tools_changes
    /\ react_agent' = Agent(tools)
    /\ Built("react")
    /\ StartRun("react")
    /\ UNCHANGED <<heap, tools, pae_agent, lti_defined, table_defined, customer_table, call>>

\* tools = [Tool(name="Search", ...), Tool(name="Calculator", ...)]
Cell23 ==
    /\ pc = "cell23" /\ running = "none"
    /\ heap' = heap \o PlanTools
    /\ tools' = NewIds(heap, PlanTools)
    /\ ToolsChanged(1)
    /\ EndCell("")
    /\ UNCHANGED <<react_agent, pae_agent, lti_defined, table_defined, customer_table, call,
                   built_at>>

\* executor = load_agent_executor(execute_llm, tools, ...); pae_agent = PlanAndExecute(...)
Cell24 ==
    /\ pc = "cell24" /\ running = "none"
    /\ UNCHANGED tools_changes
    /\ pae_agent' = Agent(tools)
    /\ Built("pae")
    /\ EndCell("")
    /\ UNCHANGED <<heap, tools, react_agent, lti_defined, table_defined, customer_table, call>>

\* pae_agent.run(...)
Cell25 ==
    /\ pc = "cell25" /\ running = "none"
    /\ StartRun("pae")
    /\ UNCHANGED <<heap, tools, react_agent, pae_agent, lti_defined, table_defined,
                   customer_table, call, tools_changes, built_at>>

RunningAgent == IF running = "react" THEN react_agent ELSE pae_agent

\* The framework invokes a tool of the running agent: tool.func(input).
\* An exception of the callable is not caught by the notebook's code: it
\* ends the run and the cell.
ToolCall ==
    /\ running # "none"
    /\ ncalls < MaxCalls
    /\ \E i \in DOMAIN RunningAgent.tools :
         LET tool == heap[RunningAgent.tools[i]]
         IN \E x \in ToolInputs(tool.func) :
              \E r \in Invoke(tool.func, x, customer_table) :
                 /\ call' = [tool |-> tool.name, func |-> tool.func, arg |-> x, result |-> r]
                 /\ customer_table' = customer_table_after(tool.func, x, customer_table)
                 /\ IF r.kind = "raise"
                    THEN EndCell(r.type)
                    ELSE /\ ncalls' = ncalls + 1
                         /\ UNCHANGED <<pc, running, cell_error>>
    /\ UNCHANGED <<heap, tools, react_agent, pae_agent, lti_defined, table_defined,
                   tools_changes, built_at>>

\* The run returns its answer and the cell ends.
RunReturn ==
    /\ running # "none"
    /\ EndCell("")
    /\ UNCHANGED <<heap, tools, react_agent, pae_agent, lti_defined, table_defined,
                   customer_table, call, tools_changes, built_at>>

Next ==
    \/ Cell7 \/ Cell8 \/ Cell10 \/ Cell11 \/ Cell13 \/ Cell15 \/ Cell17
    \/ Cell19 \/ Cell20 \/ Cell23 \/ Cell24 \/ Cell25
    \/ ToolCall \/ RunReturn

Spec == Init /\ [][Next]_vars

---------------------------------------------------------------------------
(* Properties. *)

\* Every invocation the model records has the shape the properties read.
TypeOK ==
    /\ pc \in { Cells[i] : i \in DOMAIN Cells }
    /\ running \in {"none", "react", "pae"}
    /\ ncalls \in 0..MaxCalls
    /\ call.result.kind \in {"return", "raise"}
    /\ \A i \in DOMAIN tools : tools[i] \in DOMAIN heap

\* C1: for every id that is the id field of a record of customer_table,
\* given as an integer or as its decimal string, customer_lookup returns
\* the record of customer_table whose id field equals that id.
C1_LookupFindsRecord ==
    \A i \in DOMAIN customer_table :
        LET n == customer_table[i].id
        IN (call.func = "customer_lookup" /\ call.arg \in {PyInt(n), PyStr(ToString(n))})
           => /\ call.result.kind = "return"
              /\ call.result.type = "dict"
              /\ call.result.rec.id = n
              /\ \E k \in DOMAIN customer_table : customer_table[k] = call.result.rec

\* customer_lookup("8") has returned the record of Michelle Chen.
C1_Witness ==
    /\ call.func = "customer_lookup"
    /\ call.arg = PyStr("8")
    /\ call.result.type = "dict"
    /\ call.result.rec.id = 8
    /\ call.result.rec.first_name = "Michelle"

\* C2: in every state of the session no two records of customer_table
\* have the same id.
C2_IdUnique ==
    \A i, k \in DOMAIN customer_table :
        customer_table[i].id = customer_table[k].id => i = k

\* The table is defined, with its ten records, and the notebook has ended.
C2_Witness == table_defined /\ Len(customer_table) = 10 /\ pc = "done"

\* Whether x is a JSON object with a string element named instance and a
\* string element named changeType.
IsChangeDocument(x) ==
    LET d == json_loads(x)
    IN /\ d.ok
       /\ d.val.type = "dict"
       /\ HasKey(d.val, "instance") /\ GetItem(d.val, "instance").type = "str"
       /\ HasKey(d.val, "changeType") /\ GetItem(d.val, "changeType").type = "str"

\* C3: for every parameter string that is a JSON object with an element
\* named instance and an element named changeType, record_change returns
\* "instance <instance>. ACTION: <changeType> recorded in CMDB" for those
\* two values.
C3_JsonDocumentRecorded ==
    (call.func = "record_change" /\ IsChangeDocument(call.arg.s))
    => LET d == json_loads(call.arg.s).val
       IN call.result = ReturnStr("instance " \o GetItem(d, "instance").s
                                  \o ". ACTION: " \o GetItem(d, "changeType").s
                                  \o " recorded in CMDB")

\* C4, as stated: no step changes the name, the callable or the
\* description of a Tool object that exists.
C4_DescriptorsNeverChange ==
    [][\A o \in DOMAIN heap : heap'[o] = heap[o]]_vars

\* C4, amended: no step changes the name or the description of a Tool
\* object that exists, and the only change of a callable is cell 15's, which
\* gives a tool named EC2Search the callable list_tagged_instances.
C4_OnlyCell15ChangesCallable ==
    [][\A o \in DOMAIN heap :
          /\ o \in DOMAIN heap'
          /\ heap'[o].name = heap[o].name
          /\ heap'[o].description = heap[o].description
          /\ heap'[o].func # heap[o].func
             => /\ pc = "cell15" /\ running = "none"
                /\ heap[o].name = "EC2Search"
                /\ heap'[o].func = "list_tagged_instances"]_vars

\* The notebook has ended with the EC2Search tool of cell 10 holding the
\* generated function, under its name and description of cell 10.
C4_Witness ==
    /\ pc = "done"
    /\ \E o \in DOMAIN heap :
          heap[o] = [EC2SearchTool EXCEPT !.func = "list_tagged_instances"]

\* C5: whatever customer_lookup calls and notebook steps have happened,
\* customer_table holds the ten records it was defined with, in the same
\* order and with the same field values.
C5_TableUnchanged == table_defined => customer_table = customer_table_literal

\* The notebook has ended after a lookup by a string that found a record.
C5_Witness ==
    /\ pc = "done"
    /\ table_defined
    /\ call.func = "customer_lookup"
    /\ call.arg.type = "str"
    /\ call.result.type = "dict"

\* C6: customer_lookup given an id that int() cannot convert raises
\* ValueError, and record_change given a parameter whose inner text is not
\* valid JSON, is no object or lacks instance or changeType raises
\* (JSONDecodeError, TypeError, KeyError); neither returns a value instead.
C6_ToolFailuresPropagate ==
    /\ (call.func = "customer_lookup" /\ ~int(call.arg).ok)
       => call.result = Raises("ValueError")
    /\ call.func = "record_change"
       => LET j == json_loads(slice_1_m1(call.arg.s))
          IN /\ ~j.ok => call.result = Raises("JSONDecodeError")
             /\ (j.ok /\ j.val.type # "dict") => call.result = Raises("TypeError")
             /\ (j.ok /\ j.val.type = "dict"
                 /\ (~HasKey(j.val, "instance") \/ ~HasKey(j.val, "changeType")))
                => call.result = Raises("KeyError")

\* customer_lookup("abc") has raised ValueError, which ended the cell.
C6_Witness ==
    /\ call.func = "customer_lookup"
    /\ call.arg = PyStr("abc")
    /\ call.result.kind = "raise"
    /\ cell_error = "ValueError"
    /\ running = "none"

\* C8: for every tag name, the mock EC2Search returns the same string
\* "['i-00000000000','i-00000000001','i-00000000002']".
C8_EC2SearchFixed ==
    call.func = "EC2Search_lambda"
    => call.result = ReturnStr("['i-00000000000','i-00000000001','i-00000000002']")

\* The mock has been called with a tag that no instance has.
C8_Witness ==
    /\ call.func = "EC2Search_lambda"
    /\ call.arg.s = "doesnotexist"
    /\ call.result.kind = "return"

\* C9: the step of cell 15 that replaces the EC2Search implementation
\* leaves the tools list, the set of Tool objects, every name and
\* description, and the callable of every tool not named EC2Search as
\* they were.
C9_ReplacementFrame ==
    [][(pc = "cell15" /\ running = "none")
       => /\ tools' = tools
          /\ DOMAIN heap' = DOMAIN heap
          /\ \A o \in DOMAIN heap :
                /\ heap'[o].name = heap[o].name
                /\ heap'[o].description = heap[o].description
                /\ heap[o].name # "EC2Search" => heap'[o].func = heap[o].func]_vars

\* Cell 15 has replaced the callable of EC2Search, and EC2Patch, of the
\* same list, holds its lambda.
C9_Witness ==
    /\ pc = "cell15" /\ running = "react"
    /\ \E i, k \in DOMAIN tools :
          /\ heap[tools[i]].name = "EC2Search"
          /\ heap[tools[i]].func = "list_tagged_instances"
          /\ heap[tools[k]] = EC2PatchTool

\* The number of commas of x.
CountCommas(x) == Cardinality({ i \in 1..Len(x) : Ch(x, i) = "," })

\* C10: for every input x, EC2Patch returns "<n> instances patched" and
\* EC2Stop "<n> instances stopped", n being the number of commas of x
\* plus one; so neither reports 0 instances.
C10_CountIsCommasPlusOne ==
    LET n == CountCommas(call.arg.s) + 1
    IN /\ call.func = "EC2Patch_lambda"
          => /\ call.result = ReturnStr(ToString(n) \o " instances patched")
             /\ call.result.s # "0 instances patched"
       /\ call.func = "EC2Stop_lambda"
          => /\ call.result = ReturnStr(ToString(n) \o " instances stopped")
             /\ call.result.s # "0 instances stopped"

\* EC2Stop has been given the empty string and reported one instance.
C10_Witness ==
    /\ call.func = "EC2Stop_lambda"
    /\ call.arg.s = ""
    /\ call.result.s = "1 instances stopped"

\* C11: for every id that int() converts and that is the id of no record
\* of customer_table, customer_lookup returns None; and a record it returns
\* is the first record of customer_table, in list order, whose id equals
\* int(id).
C11_NoneOrFirstMatch ==
    (call.func = "customer_lookup" /\ int(call.arg).ok)
    => LET n == int(call.arg).v
       IN /\ (\A i \in DOMAIN customer_table : customer_table[i].id # n)
             => call.result = ReturnNone
          /\ call.result.type = "dict"
             => \E i \in DOMAIN customer_table :
                   /\ customer_table[i] = call.result.rec
                   /\ customer_table[i].id = n
                   /\ \A k \in 1..(i - 1) : customer_table[k].id # n

\* customer_lookup("11") has returned None.
C11_Witness ==
    /\ call.func = "customer_lookup"
    /\ call.arg = PyStr("11")
    /\ call.result = ReturnNone

\* C12: while an agent runs, it is an agent constructed after the last
\* change of the tools list: no rebinding of tools, append or replacement
\* of a callable lies between its construction and the run, and the tools
\* it holds are those of the list.
C12_NoStaleAgentRun ==
    running # "none"
    => /\ RunningAgent.built
       /\ built_at[running] = tools_changes
       /\ RunningAgent.tools = tools

\* The agent built in cell 15, after the replacement of EC2Search's
\* callable, runs in cell 17 without being built again and has called the
\* generated function.
C12_Witness ==
    /\ pc = "cell17"
    /\ running = "react"
    /\ call.func = "list_tagged_instances"
    /\ ncalls > 0
    /\ built_at.react = tools_changes
    /\ tools_changes > 0

=============================================================================
